---- MODULE Spec2Model ----
(***************************************************************************)
(* NetworkManager of spider_chrome (src/handler/network.rs, the build      *)
(* without the "adblock" feature): the request-lifecycle tracker, the      *)
(* interception policy, the auth challenge handler, the protocol mode      *)
(* reconciler and the queue of outbound items drained by poll.             *)
(*                                                                         *)
(* Every method of NetworkManager is an operator from the engine (a record *)
(* of its fields, `self`) and the call's arguments to the engine after the *)
(* call; the actions apply these operators to the engine held in the       *)
(* variables.                                                              *)
(***************************************************************************)
EXTENDS Naturals, Sequences, FiniteSets

VARIABLES
    queued_events,                          \* VecDeque<NetworkEvent>
    requests,                               \* HashMap<RequestId, HttpRequest>
    requests_will_be_sent,                  \* HashMap<RequestId, EventRequestWillBeSent>
    extra_headers,                          \* HashMap<String, String>
    request_id_to_interception_id,          \* HashMap<RequestId, InterceptionId>
    user_cache_disabled,
    attempted_authentications,              \* HashSet<RequestId>
    credentials,                            \* Option<Credentials>
    user_request_interception_enabled,
    protocol_request_interception_enabled,
    offline,
    ignore_visuals,
    block_stylesheets,
    block_javascript

vars == <<queued_events, requests, requests_will_be_sent, extra_headers,
          request_id_to_interception_id, user_cache_disabled,
          attempted_authentications, credentials,
          user_request_interception_enabled,
          protocol_request_interception_enabled, offline, ignore_visuals,
          block_stylesheets, block_javascript>>

----------------------------------------------------------------------------
(* Bounds of the model.                                                    *)

\* Handlers are delivered while fewer than MaxQueue items wait in the queue.
MaxQueue == 2
\* A redirect leg is delivered while the live request's chain is shorter.
MaxChain == 2

----------------------------------------------------------------------------
(* Option<T>, HashMap<K, V> and Vec<T>.                                    *)

None == <<>>
Some(x) == <<x>>
is_some(o) == o # None
unwrap(o) == o[1]

EmptyMap == <<>>
contains_key(m, k) == k \in DOMAIN m
map_insert(m, k, v) == [x \in (DOMAIN m) \cup {k} |-> IF x = k THEN v ELSE m[x]]
map_remove(m, k) == [x \in (DOMAIN m) \ {k} |-> m[x]]

IsPrefix(s, t) == Len(s) <= Len(t) /\ SubSeq(t, 1, Len(s)) = s
starts_with(url, prefix) == IsPrefix(prefix, url)

----------------------------------------------------------------------------
(* Static tables.  A URL is the sequence of its parts, so that starts_with *)
(* is a prefix test and set membership is a test of the whole URL.         *)

JS_FRAMEWORK_ALLOW ==
    { <<"jquery.min.js">>, <<"jquery.qtip.min.js">>, <<"jquery.js">>,
      <<"angular.js">>, <<"jquery.slim.js">>, <<"react.development.js">>,
      <<"react-dom.development.js">>, <<"react.production.min.js">>,
      <<"react-dom.production.min.js">>, <<"vue.global.js">>,
      <<"vue.esm-browser.js">>, <<"vue.js">>, <<"bootstrap.min.js">>,
      <<"bootstrap.bundle.min.js">>, <<"bootstrap.esm.min.js">>,
      <<"d3.min.js">>, <<"d3.js">>,
      <<"https://m.stripe.network", "/inner.html">>,
      <<"https://m.stripe.network", "/out-4.5.43.js">>,
      <<"https://challenges.cloudflare.com", "/turnstile">>,
      <<"https://js.stripe.com", "/v3/">> }

IGNORE_VISUAL_RESOURCE_MAP == {"Image", "Media", "Font", "Other"}

IGNORE_NETWORKING_RESOURCE_MAP == {"Prefetch", "Ping"}

----------------------------------------------------------------------------
(* HttpRequest (handler/http.rs) and NetworkEvent.                         *)

HttpRequest_new(request_id, frame, interception_id, allow_interception, redirect_chain) ==
    [ request_id         |-> request_id,
      frame              |-> frame,
      interception_id    |-> interception_id,
      allow_interception |-> allow_interception,
      redirect_chain     |-> redirect_chain,
      response           |-> None,
      failure_text       |-> None,
      from_memory_cache  |-> FALSE ]

set_response(request, response) == [request EXCEPT !.response = Some(response)]

SendCdpRequest(cmd) == [type |-> "SendCdpRequest", cmd |-> cmd]
Request(request_id) == [type |-> "Request", request_id |-> request_id]
RequestFailed(request) == [type |-> "RequestFailed", request |-> request]
RequestFinished(request) == [type |-> "RequestFinished", request |-> request]

(* The commands NetworkManager builds, each with its method identifier.    *)
SetExtraHttpHeadersParams(headers) ==
    [method |-> "Network.setExtraHTTPHeaders", headers |-> headers]
SetCacheDisabledParams(cache_disabled) ==
    [method |-> "Network.setCacheDisabled", cache_disabled |-> cache_disabled]
FetchEnableParams ==
    [method |-> "Fetch.enable", handle_auth_requests |-> TRUE, url_pattern |-> "*"]
DisableParams == [method |-> "Fetch.disable"]
ContinueRequestParams(fetch_id) ==
    [method |-> "Fetch.continueRequest", request_id |-> fetch_id]
FulfillRequestParams(fetch_id, response_code) ==
    [method |-> "Fetch.fulfillRequest", request_id |-> fetch_id,
     response_code |-> response_code]
ContinueWithAuthParams(fetch_id, auth) ==
    [method |-> "Fetch.continueWithAuth", request_id |-> fetch_id, auth |-> auth]
EmulateNetworkConditionsParams(off) ==
    [method |-> "Network.emulateNetworkConditions", offline |-> off,
     latency |-> 0, download_throughput |-> "-1", upload_throughput |-> "-1"]

----------------------------------------------------------------------------
(* NetworkManager.                                                         *)

Self ==
    [ queued_events                         |-> queued_events,
      requests                              |-> requests,
      requests_will_be_sent                 |-> requests_will_be_sent,
      extra_headers                         |-> extra_headers,
      request_id_to_interception_id         |-> request_id_to_interception_id,
      user_cache_disabled                   |-> user_cache_disabled,
      attempted_authentications             |-> attempted_authentications,
      credentials                           |-> credentials,
      user_request_interception_enabled     |-> user_request_interception_enabled,
      protocol_request_interception_enabled |-> protocol_request_interception_enabled,
      offline                               |-> offline,
      ignore_visuals                        |-> ignore_visuals,
      block_stylesheets                     |-> block_stylesheets,
      block_javascript                      |-> block_javascript ]

NetworkManager_new ==
    [ queued_events                         |-> <<>>,
      requests                              |-> EmptyMap,
      requests_will_be_sent                 |-> EmptyMap,
      extra_headers                         |-> EmptyMap,
      request_id_to_interception_id         |-> EmptyMap,
      user_cache_disabled                   |-> FALSE,
      attempted_authentications             |-> {},
      credentials                           |-> None,
      user_request_interception_enabled     |-> FALSE,
      protocol_request_interception_enabled |-> FALSE,
      offline                               |-> FALSE,
      ignore_visuals                        |-> FALSE,
      block_stylesheets                     |-> FALSE,
      block_javascript                      |-> FALSE ]

push_back(self, item) == [self EXCEPT !.queued_events = Append(@, item)]

\* push_cdp_request putting the command at the front of the queue.
push_cdp_request_front(self, cmd) ==
    [self EXCEPT !.queued_events = <<SendCdpRequest(cmd)>> \o @]

push_cdp_request(self, cmd) == push_back(self, SendCdpRequest(cmd))

\* The engine after the call, and the item the call returns.
poll(self) ==
    IF self.queued_events = <<>>
    THEN [self |-> self, ret |-> None]
    ELSE [self |-> [self EXCEPT !.queued_events = Tail(@)],
          ret  |-> Some(Head(self.queued_events))]

\* set_extra_headers storing and sending the headers as supplied.
set_extra_headers_as_supplied(self, headers) ==
    LET s1 == [self EXCEPT !.extra_headers = headers]
    IN  push_cdp_request(s1, SetExtraHttpHeadersParams(s1.extra_headers))

set_extra_headers(self, headers) ==
    LET s1 == [self EXCEPT !.extra_headers = map_remove(headers, "proxy-authorization")]
    IN  push_cdp_request(s1, SetExtraHttpHeadersParams(s1.extra_headers))

update_protocol_cache_disabled(self) ==
    push_cdp_request(self,
        SetCacheDisabledParams(self.user_cache_disabled
                               \/ self.protocol_request_interception_enabled))

\* The derived flag is compared with the stored one; the stored one is not
\* assigned here (nor anywhere after new).
update_protocol_request_interception(self) ==
    LET enabled == self.user_request_interception_enabled \/ is_some(self.credentials)
    IN  IF enabled = self.protocol_request_interception_enabled
        THEN self
        ELSE LET s1 == update_protocol_cache_disabled(self)
             IN  IF enabled
                 THEN push_cdp_request(s1, FetchEnableParams)
                 ELSE push_cdp_request(s1, DisableParams)

set_request_interception(self, enabled) ==
    update_protocol_request_interception(
        [self EXCEPT !.user_request_interception_enabled = enabled])

set_cache_enabled(self, enabled) ==
    update_protocol_cache_disabled([self EXCEPT !.user_cache_disabled = ~enabled])

authenticate(self, creds) ==
    update_protocol_request_interception([self EXCEPT !.credentials = Some(creds)])

\* set_offline_mode without the test of the current flag.
set_offline_mode_always(self, value) ==
    LET s1 == [self EXCEPT !.offline = value]
    IN  push_cdp_request(s1, EmulateNetworkConditionsParams(s1.offline))

set_offline_mode(self, value) ==
    IF self.offline = value
    THEN self
    ELSE LET s1 == [self EXCEPT !.offline = value]
         IN  push_cdp_request(s1, EmulateNetworkConditionsParams(s1.offline))

handle_request_redirect(self, request, response) ==
    LET r1 == set_response(request, response)
    IN  [ request |-> r1,
          self    |-> IF is_some(r1.interception_id)
                      THEN [self EXCEPT !.attempted_authentications =
                                            @ \ {unwrap(r1.interception_id)}]
                      ELSE self ]

\* on_request that chains the previous request whether or not the event
\* carries a redirect response.
on_request_chains_replaced(self, event, interception_id) ==
    LET tracked == contains_key(self.requests, event.request_id)
        prev == IF is_some(event.redirect_response)
                THEN set_response(self.requests[event.request_id],
                                  unwrap(event.redirect_response))
                ELSE self.requests[event.request_id]
        redirect_chain ==
            IF tracked
            THEN Append(prev.redirect_chain, [prev EXCEPT !.redirect_chain = <<>>])
            ELSE <<>>
        request == HttpRequest_new(event.request_id, event.frame_id, interception_id,
                                   self.user_request_interception_enabled,
                                   redirect_chain)
    IN  push_back([self EXCEPT !.requests = map_insert(@, event.request_id, request)],
                  Request(event.request_id))

\* on_request putting the previous request in front of its own chain.
on_request_newest_first(self, event, interception_id) ==
    LET redirected == /\ is_some(event.redirect_response)
                      /\ contains_key(self.requests, event.request_id)
        hr == handle_request_redirect(
                  [self EXCEPT !.requests = map_remove(@, event.request_id)],
                  self.requests[event.request_id],
                  unwrap(event.redirect_response))
        s1 == IF redirected THEN hr.self ELSE self
        redirect_chain ==
            IF redirected
            THEN <<[hr.request EXCEPT !.redirect_chain = <<>>]>>
                     \o hr.request.redirect_chain
            ELSE <<>>
        request == HttpRequest_new(event.request_id, event.frame_id, interception_id,
                                   self.user_request_interception_enabled,
                                   redirect_chain)
    IN  push_back([s1 EXCEPT !.requests = map_insert(@, event.request_id, request)],
                  Request(event.request_id))

on_request(self, event, interception_id) ==
    LET redirected == /\ is_some(event.redirect_response)
                      /\ contains_key(self.requests, event.request_id)
        hr == handle_request_redirect(
                  [self EXCEPT !.requests = map_remove(@, event.request_id)],
                  self.requests[event.request_id],
                  unwrap(event.redirect_response))
        s1 == IF redirected THEN hr.self ELSE self
        redirect_chain ==
            IF redirected
            THEN Append(hr.request.redirect_chain,
                        [hr.request EXCEPT !.redirect_chain = <<>>])
            ELSE <<>>
        request == HttpRequest_new(event.request_id, event.frame_id, interception_id,
                                   self.user_request_interception_enabled,
                                   redirect_chain)
    IN  push_back([s1 EXCEPT !.requests = map_insert(@, event.request_id, request)],
                  Request(event.request_id))

\* skip_networking without the allow-list test of a blocked script.
skip_networking_no_allow_list(self, event) ==
    \/ event.resource_type \in IGNORE_NETWORKING_RESOURCE_MAP
    \/ self.ignore_visuals /\ event.resource_type \in IGNORE_VISUAL_RESOURCE_MAP
    \/ self.block_stylesheets /\ "Stylesheet" = event.resource_type
    \/ /\ self.block_javascript
       /\ "Script" = event.resource_type
    \/ \/ ~self.block_javascript
          /\ starts_with(event.url, <<"https://www.google-analytics.com">>)
       \/ starts_with(event.url, <<"https://www.googletagmanager.com">>)
       \/ starts_with(event.url, <<"https://px.ads.linkedin.com">>)

skip_networking(self, event) ==
    \/ event.resource_type \in IGNORE_NETWORKING_RESOURCE_MAP
    \/ self.ignore_visuals /\ event.resource_type \in IGNORE_VISUAL_RESOURCE_MAP
    \/ self.block_stylesheets /\ "Stylesheet" = event.resource_type
    \/ /\ self.block_javascript
       /\ "Script" = event.resource_type
       /\ event.url \notin JS_FRAMEWORK_ALLOW
    \/ \/ ~self.block_javascript
          /\ starts_with(event.url, <<"https://www.google-analytics.com">>)
       \/ starts_with(event.url, <<"https://www.googletagmanager.com">>)
       \/ starts_with(event.url, <<"https://px.ads.linkedin.com">>)

\* on_fetch_request_paused that leaves an event without network id unanswered.
on_fetch_request_paused_needs_network_id(self, event) ==
    IF ~self.user_request_interception_enabled
       /\ self.protocol_request_interception_enabled
    THEN push_cdp_request(self, ContinueRequestParams(event.request_id))
    ELSE IF is_some(event.network_id)
         THEN IF contains_key(self.requests_will_be_sent, unwrap(event.network_id))
              THEN on_request(
                       [self EXCEPT !.requests_will_be_sent =
                                        map_remove(@, unwrap(event.network_id))],
                       self.requests_will_be_sent[unwrap(event.network_id)],
                       Some(event.request_id))
              ELSE IF skip_networking(self, event)
                   THEN push_cdp_request(self,
                            FulfillRequestParams(event.request_id, 200))
                   ELSE push_cdp_request(self,
                            ContinueRequestParams(event.request_id))
         ELSE self

on_fetch_request_paused(self, event) ==
    IF ~self.user_request_interception_enabled
       /\ self.protocol_request_interception_enabled
    THEN push_cdp_request(self, ContinueRequestParams(event.request_id))
    ELSE IF is_some(event.network_id)
         THEN IF contains_key(self.requests_will_be_sent, unwrap(event.network_id))
              THEN on_request(
                       [self EXCEPT !.requests_will_be_sent =
                                        map_remove(@, unwrap(event.network_id))],
                       self.requests_will_be_sent[unwrap(event.network_id)],
                       Some(event.request_id))
              ELSE IF skip_networking(self, event)
                   THEN push_cdp_request(self,
                            FulfillRequestParams(event.request_id, 200))
                   ELSE push_cdp_request(self,
                            ContinueRequestParams(event.request_id))
         ELSE push_cdp_request(self, ContinueRequestParams(event.request_id))

AuthChallengeResponse(self, response) ==
    [ response |-> response,
      username |-> IF is_some(self.credentials)
                   THEN Some(unwrap(self.credentials).username) ELSE None,
      password |-> IF is_some(self.credentials)
                   THEN Some(unwrap(self.credentials).password) ELSE None ]

\* on_fetch_auth_required that does not record the attempt.
on_fetch_auth_required_no_record(self, event) ==
    LET attempted == event.request_id \in self.attempted_authentications
        response == IF attempted THEN "CancelAuth"
                    ELSE IF is_some(self.credentials) THEN "ProvideCredentials"
                    ELSE "Default"
    IN  push_cdp_request(self,
            ContinueWithAuthParams(event.request_id, AuthChallengeResponse(self, response)))

on_fetch_auth_required(self, event) ==
    LET attempted == event.request_id \in self.attempted_authentications
        response == IF attempted THEN "CancelAuth"
                    ELSE IF is_some(self.credentials) THEN "ProvideCredentials"
                    ELSE "Default"
        s1 == IF ~attempted /\ is_some(self.credentials)
              THEN [self EXCEPT !.attempted_authentications = @ \cup {event.request_id}]
              ELSE self
    IN  push_cdp_request(s1,
            ContinueWithAuthParams(event.request_id, AuthChallengeResponse(s1, response)))

\* on_request_will_be_sent testing the user's flag where the code tests the
\* protocol flag.
on_request_will_be_sent_user_flag(self, event) ==
    IF self.user_request_interception_enabled
       /\ ~starts_with(event.url, <<"data:">>)
    THEN IF contains_key(self.request_id_to_interception_id, event.request_id)
         THEN on_request(
                  [self EXCEPT !.request_id_to_interception_id =
                                   map_remove(@, event.request_id)],
                  event,
                  Some(self.request_id_to_interception_id[event.request_id]))
         ELSE [self EXCEPT !.requests_will_be_sent =
                               map_insert(@, event.request_id, event)]
    ELSE on_request(self, event, None)

on_request_will_be_sent(self, event) ==
    IF self.protocol_request_interception_enabled
       /\ ~starts_with(event.url, <<"data:">>)
    THEN IF contains_key(self.request_id_to_interception_id, event.request_id)
         THEN on_request(
                  [self EXCEPT !.request_id_to_interception_id =
                                   map_remove(@, event.request_id)],
                  event,
                  Some(self.request_id_to_interception_id[event.request_id]))
         ELSE [self EXCEPT !.requests_will_be_sent =
                               map_insert(@, event.request_id, event)]
    ELSE on_request(self, event, None)

\* on_request_served_from_cache that ends the request it finds.
on_request_served_from_cache_terminal(self, request_id) ==
    IF contains_key(self.requests, request_id)
    THEN push_back([self EXCEPT !.requests = map_remove(@, request_id)],
                   RequestFinished([self.requests[request_id] EXCEPT
                                        !.from_memory_cache = TRUE]))
    ELSE self

on_request_served_from_cache(self, request_id) ==
    IF contains_key(self.requests, request_id)
    THEN [self EXCEPT !.requests[request_id].from_memory_cache = TRUE]
    ELSE self

\* on_response_received reading the entry (get) where the code removes it.
on_response_received_get(self, request_id, response) ==
    IF contains_key(self.requests, request_id)
    THEN push_back(self,
                   RequestFinished(set_response(self.requests[request_id], response)))
    ELSE self

on_response_received(self, request_id, response) ==
    IF contains_key(self.requests, request_id)
    THEN push_back([self EXCEPT !.requests = map_remove(@, request_id)],
                   RequestFinished(set_response(self.requests[request_id], response)))
    ELSE self

clear_attempted(self, request) ==
    IF is_some(request.interception_id)
    THEN [self EXCEPT !.attempted_authentications = @ \ {unwrap(request.interception_id)}]
    ELSE self

on_network_loading_finished(self, request_id) ==
    IF contains_key(self.requests, request_id)
    THEN LET request == self.requests[request_id]
             s1 == [self EXCEPT !.requests = map_remove(@, request_id)]
         IN  push_back(clear_attempted(s1, request), RequestFinished(request))
    ELSE self

\* on_network_loading_failed that does not stamp the failure text.
on_network_loading_failed_no_text(self, request_id, error_text) ==
    IF contains_key(self.requests, request_id)
    THEN LET request == self.requests[request_id]
             s1 == [self EXCEPT !.requests = map_remove(@, request_id)]
         IN  push_back(clear_attempted(s1, request), RequestFailed(request))
    ELSE self

on_network_loading_failed(self, request_id, error_text) ==
    IF contains_key(self.requests, request_id)
    THEN LET request == [self.requests[request_id] EXCEPT
                             !.failure_text = Some(error_text)]
             s1 == [self EXCEPT !.requests = map_remove(@, request_id)]
         IN  push_back(clear_attempted(s1, request), RequestFailed(request))
    ELSE self

----------------------------------------------------------------------------
(* Inputs.                                                                 *)

RequestIds == {"r1", "r2"}
FetchIds == {"i1", "i2"}
FrameIds == {"f1"}
Responses == {"resp1", "resp2"}
ErrorTexts == {"net::ERR_FAILED"}
CredentialsSet == {[username |-> "user", password |-> "pass"]}

PlainUrl == <<"https://example.com", "/index.html">>
DataUrl == <<"data:", "text/plain,hi">>

EventRequestWillBeSent(request_id, frame_id, url, redirect_response) ==
    [ request_id        |-> request_id,
      frame_id          |-> frame_id,
      url               |-> url,
      redirect_response |-> redirect_response ]

EventRequestPaused(fetch_id, network_id, resource_type, url) ==
    [ request_id    |-> fetch_id,
      network_id    |-> network_id,
      resource_type |-> resource_type,
      url           |-> url ]

EventAuthRequired(fetch_id) == [request_id |-> fetch_id]

OptionOf(S) == {None} \cup {Some(x) : x \in S}

WillBeSentEvents(ids, urls, responses) ==
    { EventRequestWillBeSent(id, f, u, r) :
        id \in ids, f \in FrameIds, u \in urls, r \in OptionOf(responses) }

PausedEvents(fetch_ids, network_ids, resource_types, urls) ==
    { EventRequestPaused(i, n, t, u) :
        i \in fetch_ids, n \in OptionOf(network_ids), t \in resource_types, u \in urls }

HeaderNames == {"proxy-authorization", "Proxy-Authorization", "accept"}
HeaderValues == {"v1"}
HeaderMaps == UNION { [names -> HeaderValues] : names \in SUBSET HeaderNames }

ResourceTypes ==
    {"Document", "Stylesheet", "Image", "Media", "Font", "Script", "XHR", "Fetch",
     "Prefetch", "Ping", "Other"}

PolicyUrls ==
    { PlainUrl,
      <<"react.production.min.js">>,
      <<"https://cdn.example.com", "/react.production.min.js">>,
      <<"https://example.com", "/evil-tracker.js">>,
      <<"https://www.google-analytics.com", "/analytics.js">>,
      <<"https://www.googletagmanager.com", "/gtm.js">>,
      <<"https://px.ads.linkedin.com", "/collect">> }

----------------------------------------------------------------------------
(* Actions: one call of a method on the engine held in the variables.      *)

Commit(self) ==
    /\ queued_events' = self.queued_events
    /\ requests' = self.requests
    /\ requests_will_be_sent' = self.requests_will_be_sent
    /\ extra_headers' = self.extra_headers
    /\ request_id_to_interception_id' = self.request_id_to_interception_id
    /\ user_cache_disabled' = self.user_cache_disabled
    /\ attempted_authentications' = self.attempted_authentications
    /\ credentials' = self.credentials
    /\ user_request_interception_enabled' = self.user_request_interception_enabled
    /\ protocol_request_interception_enabled' = self.protocol_request_interception_enabled
    /\ offline' = self.offline
    /\ ignore_visuals' = self.ignore_visuals
    /\ block_stylesheets' = self.block_stylesheets
    /\ block_javascript' = self.block_javascript

\* The caller drains the queue before it lets more than MaxQueue items wait.
QueueHasRoom == Len(queued_events) < MaxQueue

\* A further redirect leg is delivered while the live chain is short.
ChainHasRoom(event) ==
    (is_some(event.redirect_response) /\ contains_key(requests, event.request_id))
        => Len(requests[event.request_id].redirect_chain) < MaxChain

Call_poll ==
    \E polled \in {poll(Self)} : Commit(polled.self)

Call_set_extra_headers ==
    \E headers \in HeaderMaps :
        QueueHasRoom /\ Commit(set_extra_headers(Self, headers))

Call_set_request_interception ==
    \E enabled \in BOOLEAN :
        QueueHasRoom /\ Commit(set_request_interception(Self, enabled))

Call_set_cache_enabled ==
    \E enabled \in BOOLEAN :
        QueueHasRoom /\ Commit(set_cache_enabled(Self, enabled))

Call_authenticate ==
    \E creds \in CredentialsSet :
        QueueHasRoom /\ Commit(authenticate(Self, creds))

Call_set_offline_mode ==
    \E value \in BOOLEAN :
        QueueHasRoom /\ Commit(set_offline_mode(Self, value))

Call_on_request_will_be_sent(events) ==
    \E event \in events :
        QueueHasRoom /\ ChainHasRoom(event)
        /\ Commit(on_request_will_be_sent(Self, event))

Call_on_fetch_request_paused(events) ==
    \E event \in events :
        QueueHasRoom /\ Commit(on_fetch_request_paused(Self, event))

Call_on_fetch_auth_required ==
    \E fetch_id \in FetchIds :
        QueueHasRoom /\ Commit(on_fetch_auth_required(Self, EventAuthRequired(fetch_id)))

Call_on_request_served_from_cache ==
    \E request_id \in RequestIds :
        Commit(on_request_served_from_cache(Self, request_id))

Call_on_response_received(responses) ==
    \E request_id \in RequestIds, response \in responses :
        QueueHasRoom /\ Commit(on_response_received(Self, request_id, response))

Call_on_network_loading_finished ==
    \E request_id \in RequestIds :
        QueueHasRoom /\ Commit(on_network_loading_finished(Self, request_id))

Call_on_network_loading_failed ==
    \E request_id \in RequestIds, error_text \in ErrorTexts :
        QueueHasRoom /\ Commit(on_network_loading_failed(Self, request_id, error_text))

----------------------------------------------------------------------------
(* Specifications.                                                         *)

Construct(self) ==
    /\ queued_events = self.queued_events
    /\ requests = self.requests
    /\ requests_will_be_sent = self.requests_will_be_sent
    /\ extra_headers = self.extra_headers
    /\ request_id_to_interception_id = self.request_id_to_interception_id
    /\ user_cache_disabled = self.user_cache_disabled
    /\ attempted_authentications = self.attempted_authentications
    /\ credentials = self.credentials
    /\ user_request_interception_enabled = self.user_request_interception_enabled
    /\ protocol_request_interception_enabled = self.protocol_request_interception_enabled
    /\ offline = self.offline
    /\ ignore_visuals = self.ignore_visuals
    /\ block_stylesheets = self.block_stylesheets
    /\ block_javascript = self.block_javascript

Init == Construct(NetworkManager_new)

\* The owner writes the public content-filtering fields after construction.
InitPolicy ==
    \E iv \in BOOLEAN, bs \in BOOLEAN, bj \in BOOLEAN :
        Construct([NetworkManager_new EXCEPT !.ignore_visuals = iv,
                                             !.block_stylesheets = bs,
                                             !.block_javascript = bj])

\* The request-lifecycle tracker: the protocol events of a session.
\* One identifier is followed through its redirect legs; the events that look a
\* request up also arrive for an identifier the engine never tracked.
TrackerWillBeSent == WillBeSentEvents({"r1"}, {PlainUrl, DataUrl}, Responses)
TrackerPaused == PausedEvents({"i1"}, {"r1"}, {"Document", "Ping"}, {PlainUrl})

Next ==
    \/ Call_on_request_will_be_sent(TrackerWillBeSent)
    \/ Call_on_fetch_request_paused(TrackerPaused)
    \/ Call_on_request_served_from_cache
    \/ Call_on_response_received(Responses)
    \/ Call_on_network_loading_finished
    \/ Call_on_network_loading_failed
    \/ Call_poll

Spec == Init /\ [][Next]_vars

\* The protocol mode reconciler: the configuration calls of the owner.
NextMode ==
    \/ Call_set_extra_headers
    \/ Call_set_request_interception
    \/ Call_set_cache_enabled
    \/ Call_authenticate
    \/ Call_set_offline_mode
    \/ Call_poll

SpecMode == Init /\ [][NextMode]_vars

\* Interception and auth challenges on top of the tracker.
AuthWillBeSent == WillBeSentEvents(RequestIds, {PlainUrl, DataUrl}, {})
AuthPaused == PausedEvents(FetchIds, RequestIds, {"Document"}, {PlainUrl})

NextAuth ==
    \/ Call_set_request_interception
    \/ Call_authenticate
    \/ Call_on_request_will_be_sent(AuthWillBeSent)
    \/ Call_on_fetch_request_paused(AuthPaused)
    \/ Call_on_fetch_auth_required
    \/ Call_on_request_served_from_cache
    \/ Call_on_network_loading_finished
    \/ Call_on_network_loading_failed
    \/ Call_poll

SpecAuth == Init /\ [][NextAuth]_vars

\* The interception policy under every setting of the content filters.
PolicyPaused == PausedEvents({"i1"}, {"r1"}, ResourceTypes, PolicyUrls)

NextPolicy ==
    \/ Call_set_request_interception
    \/ Call_authenticate
    \/ Call_on_fetch_request_paused(PolicyPaused)
    \/ Call_poll

SpecPolicy == InitPolicy /\ [][NextPolicy]_vars

----------------------------------------------------------------------------
(* Properties.  A property of a call is stated of the engine the call      *)
(* returns, for the engine of every reachable state and every input.       *)

Last(q) == q[Len(q)]

\* The items a call added at the back of the queue.
Added(before, after) ==
    SubSeq(after.queued_events, Len(before.queued_events) + 1, Len(after.queued_events))

AppendsOnly(before, after) == IsPrefix(before.queued_events, after.queued_events)

IsCommand(item, method) == item.type = "SendCdpRequest" /\ item.cmd.method = method

CountCommands(q, method) == Cardinality({i \in DOMAIN q : IsCommand(q[i], method)})

\* C1: every entry of the in-flight map is the one request of its identifier,
\* and right after on_response_received, on_network_loading_finished or
\* on_network_loading_failed for an identifier the identifier is not in the map.
C1_TerminalEventRemoves ==
    /\ \A id \in DOMAIN requests : requests[id].request_id = id
    /\ \A id \in RequestIds :
        /\ \A response \in Responses :
               ~contains_key(on_response_received(Self, id, response).requests, id)
        /\ ~contains_key(on_network_loading_finished(Self, id).requests, id)
        /\ \A error_text \in ErrorTexts :
               ~contains_key(on_network_loading_failed(Self, id, error_text).requests, id)

\* A terminal event was the last to queue: its request has left the map.
C1_Witness ==
    /\ queued_events # <<>>
    /\ Last(queued_events).type \in {"RequestFinished", "RequestFailed"}
    /\ Last(queued_events).request.request_id = "r1"
    /\ ~contains_key(requests, "r1")

\* C2: the stored protocol flag is the user's intent or the presence of
\* credentials.
C2_ProtocolFlagIsDerived ==
    protocol_request_interception_enabled
        = (user_request_interception_enabled \/ is_some(credentials))

\* C3: of two set_request_interception(true) calls in a row the second queues
\* nothing, and together they queue at most one enable-interception and at most
\* one set-cache-disabled command.
C3_SecondEnableQueuesNothing ==
    LET s1 == set_request_interception(Self, TRUE)
        s2 == set_request_interception(s1, TRUE)
    IN  /\ s2.queued_events = s1.queued_events
        /\ AppendsOnly(Self, s2)
        /\ CountCommands(Added(Self, s2), "Fetch.enable") <= 1
        /\ CountCommands(Added(Self, s2), "Network.setCacheDisabled") <= 1

\* C4: with interception enabled and a non-data URL, will-be-sent then paused
\* leaves the same Tracked Request (identifiers, redirect chain) as paused then
\* will-be-sent for the same identifiers, and the same terminal event follows.
C4_Pairs ==
    { <<e, p>> \in WillBeSentEvents(RequestIds, {PlainUrl}, Responses) \X AuthPaused :
          p.network_id = Some(e.request_id) }

C4_PairingOrderIndependent ==
    user_request_interception_enabled =>
        \A pair \in C4_Pairs :
            LET e  == pair[1]
                p  == pair[2]
                id == e.request_id
                a  == on_fetch_request_paused(on_request_will_be_sent(Self, e), p)
                b  == on_request_will_be_sent(on_fetch_request_paused(Self, p), e)
            IN  /\ contains_key(a.requests, id) = contains_key(b.requests, id)
                /\ a.requests = b.requests
                /\ a.requests_will_be_sent = b.requests_will_be_sent
                /\ a.request_id_to_interception_id = b.request_id_to_interception_id
                /\ Added(a, on_network_loading_finished(a, id))
                       = Added(b, on_network_loading_finished(b, id))
                /\ \A error_text \in ErrorTexts :
                       Added(a, on_network_loading_failed(a, id, error_text))
                           = Added(b, on_network_loading_failed(b, id, error_text))
                /\ \A response \in Responses :
                       Added(a, on_response_received(a, id, response))
                           = Added(b, on_response_received(b, id, response))

\* Interception is on, will-be-sent and then paused were delivered for r1 / i1,
\* and the request made of them is live.
C4_Witness ==
    /\ user_request_interception_enabled
    /\ contains_key(requests, "r1")
    /\ requests["r1"].allow_interception
    /\ Len(queued_events) >= 2
    /\ queued_events[Len(queued_events) - 1] = Request("r1")
    /\ Last(queued_events) = SendCdpRequest(ContinueRequestParams("i1"))

\* C5: three chained will-be-sent events for one identifier (A, B carrying A's
\* redirect response, C carrying B's) leave a live request whose redirect_chain
\* is <<A, B>>, oldest first; each redirect leg appends the previous live request
\* after that request's own chain, and the appended request's chain is empty.
C5_RedirectChainOldestFirst ==
    /\ \A id \in DOMAIN requests :
           \A i \in DOMAIN requests[id].redirect_chain :
               /\ requests[id].redirect_chain[i].redirect_chain = <<>>
               /\ is_some(requests[id].redirect_chain[i].response)
    /\ \A e \in TrackerWillBeSent :
           (is_some(e.redirect_response) /\ contains_key(requests, e.request_id)) =>
               LET prev == requests[e.request_id]
                   now  == on_request_will_be_sent(Self, e).requests[e.request_id]
               IN  now.redirect_chain =
                       prev.redirect_chain \o
                           << [prev EXCEPT !.redirect_chain = <<>>,
                                           !.response = e.redirect_response] >>
    /\ \A id \in {"r1"}, f \in FrameIds :
           LET A  == EventRequestWillBeSent(id, f, PlainUrl, None)
               B  == EventRequestWillBeSent(id, f, PlainUrl, Some("resp1"))
               C  == EventRequestWillBeSent(id, f, PlainUrl, Some("resp2"))
               s1 == on_request_will_be_sent(Self, A)
               s2 == on_request_will_be_sent(s1, B)
               s3 == on_request_will_be_sent(s2, C)
               reqA == s1.requests[id]
               reqB == [s2.requests[id] EXCEPT !.redirect_chain = <<>>]
           IN  s3.requests[id].redirect_chain =
                   << [reqA EXCEPT !.response = Some("resp1")],
                      [reqB EXCEPT !.response = Some("resp2")] >>

\* The third leg is live: its chain holds the first leg, then the second.
C5_Witness ==
    /\ contains_key(requests, "r1")
    /\ Len(requests["r1"].redirect_chain) = 2
    /\ requests["r1"].redirect_chain[1].response = Some("resp1")
    /\ requests["r1"].redirect_chain[2].response = Some("resp2")
    /\ requests["r1"].response = None

\* The answer of the continue-with-auth command a call queued last.
AuthAnswer(after) == Last(after.queued_events).cmd.auth.response

\* C6: with credentials configured, two consecutive auth-required events for one
\* identifier are answered ProvideCredentials and then CancelAuth, never
\* ProvideCredentials twice; ProvideCredentials is answered only for an
\* identifier that is not in attempted_authentications and puts it there, so it
\* is not answered again before the identifier is cleared.  Without credentials
\* and without a prior attempt the answer is Default.
C6_AuthRetryBound ==
    \A id \in FetchIds :
        LET ev == EventAuthRequired(id)
            s1 == on_fetch_auth_required(Self, ev)
            s2 == on_fetch_auth_required(s1, ev)
        IN  /\ Added(Self, s1) =
                   << SendCdpRequest(ContinueWithAuthParams(id,
                          AuthChallengeResponse(Self, AuthAnswer(s1)))) >>
            /\ AppendsOnly(Self, s1)
            /\ (is_some(credentials) /\ id \notin attempted_authentications) =>
                   /\ AuthAnswer(s1) = "ProvideCredentials"
                   /\ AuthAnswer(s2) = "CancelAuth"
            /\ ~(AuthAnswer(s1) = "ProvideCredentials"
                 /\ AuthAnswer(s2) = "ProvideCredentials")
            /\ AuthAnswer(s1) = "ProvideCredentials" =>
                   /\ id \notin attempted_authentications
                   /\ id \in s1.attempted_authentications
            /\ id \in attempted_authentications => AuthAnswer(s1) = "CancelAuth"
            /\ (credentials = None /\ id \notin attempted_authentications) =>
                   /\ AuthAnswer(s1) = "Default"
                   /\ s1.attempted_authentications = attempted_authentications

\* Two challenges in a row for i1 were answered: credentials, then cancel.
C6_Witness ==
    /\ is_some(credentials)
    /\ Len(queued_events) >= 2
    /\ IsCommand(queued_events[Len(queued_events) - 1], "Fetch.continueWithAuth")
    /\ queued_events[Len(queued_events) - 1].cmd.request_id = "i1"
    /\ queued_events[Len(queued_events) - 1].cmd.auth.response = "ProvideCredentials"
    /\ IsCommand(Last(queued_events), "Fetch.continueWithAuth")
    /\ Last(queued_events).cmd.request_id = "i1"
    /\ Last(queued_events).cmd.auth.response = "CancelAuth"

\* The URL prefixes of analytics and ad-tag infrastructure.
AnalyticsPrefixes ==
    { <<"https://www.google-analytics.com">>,
      <<"https://www.googletagmanager.com">>,
      <<"https://px.ads.linkedin.com">> }

IsAnalyticsUrl(url) == \E prefix \in AnalyticsPrefixes : starts_with(url, prefix)

\* The block conditions as the policy states them.
C7_Blocked(event) ==
    \/ event.resource_type \in {"Prefetch", "Ping"}
    \/ ignore_visuals /\ event.resource_type \in {"Image", "Media", "Font", "Other"}
    \/ block_stylesheets /\ event.resource_type = "Stylesheet"
    \/ block_javascript /\ event.resource_type = "Script"
       /\ event.url \notin JS_FRAMEWORK_ALLOW

\* C7: a paused event with a network id, no buffered will-be-sent event and a
\* URL outside the analytics prefixes is answered fulfill-request(200) exactly
\* when a block condition holds and continue-request otherwise; an Image with
\* ignore_visuals set is blocked whatever block_javascript is.
C7_PolicyTable ==
    \A p \in PolicyPaused :
        ( /\ is_some(p.network_id)
          /\ ~contains_key(requests_will_be_sent, unwrap(p.network_id))
          /\ ~IsAnalyticsUrl(p.url) ) =>
            LET s1 == on_fetch_request_paused(Self, p)
            IN  /\ AppendsOnly(Self, s1)
                /\ Added(Self, s1) =
                       IF C7_Blocked(p)
                       THEN << SendCdpRequest(FulfillRequestParams(p.request_id, 200)) >>
                       ELSE << SendCdpRequest(ContinueRequestParams(p.request_id)) >>
                /\ (ignore_visuals /\ p.resource_type = "Image") =>
                       IsCommand(Last(s1.queued_events), "Fetch.fulfillRequest")
                /\ (block_javascript /\ p.resource_type = "Script") =>
                       (IsCommand(Last(s1.queued_events), "Fetch.continueRequest")
                            <=> p.url \in JS_FRAMEWORK_ALLOW)

\* With visuals ignored and javascript blocked, one paused request was blocked
\* and the next was continued.
C7_Witness ==
    /\ ignore_visuals /\ block_javascript /\ ~block_stylesheets
    /\ Len(queued_events) >= 2
    /\ queued_events[Len(queued_events) - 1]
           = SendCdpRequest(FulfillRequestParams("i1", 200))
    /\ Last(queued_events) = SendCdpRequest(ContinueRequestParams("i1"))

\* C8: extra_headers never holds the key proxy-authorization, and the
\* set-extra-headers command set_extra_headers queues carries the supplied
\* headers without that key and with every other one.
C8_ProxyAuthorizationStripped ==
    /\ ~contains_key(extra_headers, "proxy-authorization")
    /\ \A i \in DOMAIN queued_events :
           IsCommand(queued_events[i], "Network.setExtraHTTPHeaders") =>
               ~contains_key(queued_events[i].cmd.headers, "proxy-authorization")
    /\ \A headers \in HeaderMaps :
           LET s1   == set_extra_headers(Self, headers)
               kept == (DOMAIN headers) \ {"proxy-authorization"}
           IN  /\ AppendsOnly(Self, s1)
               /\ Len(Added(Self, s1)) = 1
               /\ IsCommand(Last(s1.queued_events), "Network.setExtraHTTPHeaders")
               /\ DOMAIN Last(s1.queued_events).cmd.headers = kept
               /\ \A name \in kept :
                      Last(s1.queued_events).cmd.headers[name] = headers[name]
               /\ DOMAIN s1.extra_headers = kept
               /\ \A name \in kept : s1.extra_headers[name] = headers[name]

\* set_extra_headers was called with proxy-authorization among other headers:
\* the others are stored and were sent.
C8_Witness ==
    /\ DOMAIN extra_headers = {"accept", "Proxy-Authorization"}
    /\ queued_events # <<>>
    /\ IsCommand(Last(queued_events), "Network.setExtraHTTPHeaders")
    /\ DOMAIN Last(queued_events).cmd.headers = {"accept", "Proxy-Authorization"}

\* C9: set_offline_mode(v) changes nothing and queues nothing when v is the
\* current offline flag; otherwise it sets the flag to v and queues exactly one
\* emulate-network-conditions command with offline = v.
C9_OfflineToggle ==
    /\ set_offline_mode(NetworkManager_new, FALSE) = NetworkManager_new
    /\ \A v \in BOOLEAN :
           LET s1 == set_offline_mode(Self, v)
           IN  IF v = offline
               THEN s1 = Self
               ELSE /\ s1.offline = v
                    /\ s1.queued_events =
                           Append(queued_events,
                                  SendCdpRequest(EmulateNetworkConditionsParams(v)))
                    /\ [s1 EXCEPT !.offline = offline, !.queued_events = queued_events]
                           = Self

\* The engine went offline: the command that says so was queued last.
C9_Witness ==
    /\ offline
    /\ queued_events # <<>>
    /\ Last(queued_events) = SendCdpRequest(EmulateNetworkConditionsParams(TRUE))

\* The items successive polls return until poll returns nothing.
RECURSIVE PollAll(_)
PollAll(self) ==
    LET polled == poll(self)
    IN  IF polled.ret = None
        THEN <<>>
        ELSE <<unwrap(polled.ret)>> \o PollAll(polled.self)

\* What the polls return after a call starts with what they returned before it.
C10_KeepsOrder(after) == IsPrefix(PollAll(Self), PollAll(after))

\* C10: poll returns at most one item per call, the oldest one, and leaves the
\* rest; on an empty queue it returns nothing and changes nothing; successive
\* polls return every queued item once, in the order queued, lifecycle events
\* and commands alike: whatever a handler queues comes out after all that
\* was queued before it.
C10_PollIsFifo ==
    /\ queued_events = <<>> => poll(Self) = [self |-> Self, ret |-> None]
    /\ queued_events # <<>> =>
           /\ poll(Self).ret = Some(Head(queued_events))
           /\ poll(Self).self = [Self EXCEPT !.queued_events = Tail(queued_events)]
    /\ PollAll(Self) = queued_events
    /\ \A e \in TrackerWillBeSent : C10_KeepsOrder(on_request_will_be_sent(Self, e))
    /\ \A p \in TrackerPaused : C10_KeepsOrder(on_fetch_request_paused(Self, p))
    /\ \A id \in RequestIds :
           /\ C10_KeepsOrder(on_request_served_from_cache(Self, id))
           /\ C10_KeepsOrder(on_network_loading_finished(Self, id))
           /\ \A response \in Responses :
                  C10_KeepsOrder(on_response_received(Self, id, response))
           /\ \A error_text \in ErrorTexts :
                  C10_KeepsOrder(on_network_loading_failed(Self, id, error_text))

\* Two legs of r1 were announced and poll has returned the first announcement;
\* a command and the second announcement wait, the command first.
C10_Witness ==
    /\ contains_key(requests, "r1")
    /\ Len(requests["r1"].redirect_chain) = 1
    /\ queued_events = << SendCdpRequest(ContinueRequestParams("i1")), Request("r1") >>

\* No identifier is both buffered and in flight in the engine.
Disjoint(self) == (DOMAIN self.requests_will_be_sent) \cap (DOMAIN self.requests) = {}

\* C11: no identifier is in requests_will_be_sent and in requests at once, in
\* every reachable state and after every will-be-sent or paused event,
\* a redirect leg for a live request under interception included.
C11_BufferedNotInFlight ==
    /\ Disjoint(Self)
    /\ \A e \in WillBeSentEvents(RequestIds, {PlainUrl, DataUrl}, Responses) :
           Disjoint(on_request_will_be_sent(Self, e))
    /\ \A p \in AuthPaused : Disjoint(on_fetch_request_paused(Self, p))

\* Interception is on by the user and for auth, and a will-be-sent event for r1
\* was the last to queue: r1 is in flight and nothing is buffered.
C11_Witness ==
    /\ user_request_interception_enabled
    /\ is_some(credentials)
    /\ contains_key(requests, "r1")
    /\ ~contains_key(requests_will_be_sent, "r1")
    /\ queued_events # <<>>
    /\ Last(queued_events) = Request("r1")

\* The derived interception and cache modes of an engine's configuration.
InterceptionWanted(self) ==
    self.user_request_interception_enabled \/ is_some(self.credentials)

CacheDisabledWanted(self) == self.user_cache_disabled \/ InterceptionWanted(self)

\* The engines that one set_request_interception or authenticate call returns.
ReconcilerCalls(self) ==
    {set_request_interception(self, enabled) : enabled \in BOOLEAN}
        \cup {authenticate(self, creds) : creds \in CredentialsSet}

IsInterceptionCommand(item) ==
    IsCommand(item, "Fetch.enable") \/ IsCommand(item, "Fetch.disable")

\* C12: a set_request_interception or authenticate call that changes (user
\* intent or credentials present) queues exactly one interception command,
\* enable-interception (handle auth, match all) when the new value is true and
\* disable-interception when it is false, after any set-cache-disabled command
\* of the same call.
C12_TransitionQueuesInterceptionCommand ==
    \A s1 \in ReconcilerCalls(Self) :
        InterceptionWanted(s1) # InterceptionWanted(Self) =>
            /\ AppendsOnly(Self, s1)
            /\ Added(Self, s1) # <<>>
            /\ Last(Added(Self, s1)) =
                   IF InterceptionWanted(s1)
                   THEN SendCdpRequest(FetchEnableParams)
                   ELSE SendCdpRequest(DisableParams)
            /\ Len(SelectSeq(Added(Self, s1), IsInterceptionCommand)) = 1

\* C13: every set-cache-disabled command a configuration call queues carries
\* user_cache_disabled or (user intent or credentials present) of the
\* configuration after the call.
C13_CacheCommandCarriesDerivedValue ==
    \A s1 \in ReconcilerCalls(Self)
                \cup {set_cache_enabled(Self, enabled) : enabled \in BOOLEAN} :
        \A i \in DOMAIN Added(Self, s1) :
            IsCommand(Added(Self, s1)[i], "Network.setCacheDisabled") =>
                Added(Self, s1)[i].cmd.cache_disabled = CacheDisabledWanted(s1)

\* C14: a call that leaves the derived cache-disabled value unchanged queues no
\* set-cache-disabled command; set_cache_enabled with the same argument twice
\* in a row queues at most one.
C14_UnchangedCacheQueuesNothing ==
    /\ \A enabled \in BOOLEAN :
           LET s1 == set_cache_enabled(Self, enabled)
               s2 == set_cache_enabled(s1, enabled)
           IN  CountCommands(Added(Self, s2), "Network.setCacheDisabled") <= 1
    /\ \A s1 \in ReconcilerCalls(Self) :
           CacheDisabledWanted(s1) = CacheDisabledWanted(Self) =>
               CountCommands(Added(Self, s1), "Network.setCacheDisabled") = 0

----------------------------------------------------------------------------
(* Interception that is on only to support authentication.                 *)

\* C15: with interception not user-enabled and credentials set, every paused
\* request is answered with continue-request for its fetch id, never with
\* fulfill-request, whatever its category and the filter flags, and no
\* request starts being tracked.
C15_AuthOnlyContinues ==
    (~user_request_interception_enabled /\ is_some(credentials)) =>
        \A p \in PolicyPaused :
            LET s1 == on_fetch_request_paused(Self, p)
            IN  /\ AppendsOnly(Self, s1)
                /\ Added(Self, s1) =
                       <<SendCdpRequest(ContinueRequestParams(p.request_id))>>
                /\ s1.requests = Self.requests

\* The engine after a request r was announced, paused under fetch id i and
\* challenged for authentication under i.
Challenged(self, r, i) ==
    on_fetch_auth_required(
        on_fetch_request_paused(
            on_request_will_be_sent(self,
                EventRequestWillBeSent(r, "f1", PlainUrl, None)),
            EventRequestPaused(i, Some(r), "Document", PlainUrl)),
        EventAuthRequired(i))

\* The two terminal removals of request r.
LoadingEnded(self, r) ==
    {on_network_loading_finished(self, r)}
        \cup {on_network_loading_failed(self, r, text) : text \in ErrorTexts}

\* C16: once loading-finished or loading-failed has removed a request, the
\* fetch id recorded for it by the auth challenge is no longer in
\* attempted_authentications, and a later challenge for that id is answered
\* ProvideCredentials again.
C16_TerminalClearsAttempt ==
    is_some(credentials) =>
        \A r \in RequestIds, i \in FetchIds :
            (~contains_key(requests, r) /\ i \notin attempted_authentications) =>
                LET s3 == Challenged(Self, r, i)
                IN  /\ AuthAnswer(s3) = "ProvideCredentials"
                    /\ i \in s3.attempted_authentications
                    /\ \A s4 \in LoadingEnded(s3, r) :
                           /\ ~contains_key(s4.requests, r)
                           /\ i \notin s4.attempted_authentications
                           /\ AuthAnswer(on_fetch_auth_required(s4, EventAuthRequired(i)))
                                  = "ProvideCredentials"

\* C17: a paused request with a network id and no buffered announcement whose
\* URL starts with an analytics prefix is answered fulfill-request(200), for
\* both values of block_javascript and every category.
C17_AnalyticsAlwaysBlocked ==
    \A p \in PolicyPaused :
        ( /\ is_some(p.network_id)
          /\ IsAnalyticsUrl(p.url)
          /\ ~contains_key(requests_will_be_sent, unwrap(p.network_id)) ) =>
            Added(Self, on_fetch_request_paused(Self, p)) =
                <<SendCdpRequest(FulfillRequestParams(p.request_id, 200))>>

----------------------------------------------------------------------------
(* Terminal emission.                                                      *)

\* The terminal events a call queued for identifier id.
TerminalItems(before, after, id) ==
    LET IsTerminalFor(item) ==
            /\ item.type \in {"RequestFinished", "RequestFailed"}
            /\ item.request.request_id = id
    IN  SelectSeq(Added(before, after), IsTerminalFor)

\* The engine after each of the three terminal notifications for id.
TerminalCalls(self, id) ==
    {on_response_received(self, id, response) : response \in Responses}
        \cup {on_network_loading_finished(self, id)}
        \cup {on_network_loading_failed(self, id, text) : text \in ErrorTexts}

\* A terminal notification for a tracked id removes the request and queues
\* one terminal event that carries it: failure_text on a failure, the response
\* on a response.
TerminalEventCarries(id) ==
    /\ \A response \in Responses :
           LET s1 == on_response_received(Self, id, response)
           IN  /\ AppendsOnly(Self, s1)
               /\ Added(Self, s1) =
                      <<RequestFinished([requests[id] EXCEPT !.response = Some(response)])>>
    /\ LET s1 == on_network_loading_finished(Self, id)
       IN  /\ AppendsOnly(Self, s1)
           /\ Added(Self, s1) = <<RequestFinished(requests[id])>>
    /\ \A text \in ErrorTexts :
           LET s1 == on_network_loading_failed(Self, id, text)
           IN  /\ AppendsOnly(Self, s1)
               /\ Added(Self, s1) =
                      <<RequestFailed([requests[id] EXCEPT !.failure_text = Some(text)])>>
    /\ \A s1 \in TerminalCalls(Self, id) :
           /\ ~contains_key(s1.requests, id)
           /\ \A s2 \in TerminalCalls(s1, id) : s2 = s1

\* C18 as stated: every removal of a tracked request from the in-flight map
\* queues a terminal event for it, at most one RequestFinished or RequestFailed
\* per request, a failure carrying failure_text and a response-triggered finish
\* carrying the response.
C18_RemovalQueuesTerminalEvent ==
    /\ \A id \in DOMAIN requests : TerminalEventCarries(id)
    /\ \A e \in TrackerWillBeSent :
           (is_some(e.redirect_response) /\ contains_key(requests, e.request_id)) =>
               Len(TerminalItems(Self, on_request_will_be_sent(Self, e), e.request_id)) = 1

\* C18 amended: a terminal notification removes the tracked request and queues
\* exactly one terminal event carrying it, and a further terminal notification
\* for the identifier queues nothing; a will-be-sent event that takes a tracked
\* request out of the map (a redirect leg moves it into the successor's chain,
\* any other event replaces it) queues the request-observed notification only,
\* no terminal event.
C18_TerminalEventAtRemoval ==
    /\ \A id \in DOMAIN requests : TerminalEventCarries(id)
    /\ \A e \in TrackerWillBeSent :
           contains_key(requests, e.request_id) =>
               LET s1 == on_request_will_be_sent(Self, e)
               IN  /\ AppendsOnly(Self, s1)
                   /\ Added(Self, s1) = <<Request(e.request_id)>>
                   /\ contains_key(s1.requests, e.request_id)
                   /\ is_some(e.redirect_response) =>
                          Last(s1.requests[e.request_id].redirect_chain).response
                              = e.redirect_response

\* A request that took over from a redirected leg has failed: its failure
\* event was the last to queue and the leg it replaced is in its chain.
C18_Witness ==
    /\ queued_events # <<>>
    /\ Last(queued_events).type = "RequestFailed"
    /\ Last(queued_events).request.request_id = "r1"
    /\ is_some(Last(queued_events).request.failure_text)
    /\ Last(queued_events).request.redirect_chain # <<>>
    /\ ~contains_key(requests, "r1")

----------------------------------------------------------------------------
(* Lookup misses and cache hits.                                           *)

\* C19: a response, loading-finished, loading-failed or served-from-cache
\* notification for an identifier that is not in the in-flight map leaves the
\* whole engine unchanged; served-from-cache for a tracked identifier sets
\* from_memory_cache of that request and changes nothing else.
C19_MissIsNoOp ==
    /\ \A id \in RequestIds \ DOMAIN requests :
           /\ \A s1 \in TerminalCalls(Self, id) : s1 = Self
           /\ on_request_served_from_cache(Self, id) = Self
    /\ \A id \in DOMAIN requests :
           LET s1 == on_request_served_from_cache(Self, id)
           IN  /\ s1.queued_events = Self.queued_events
               /\ contains_key(s1.requests, id)
               /\ s1.requests[id].from_memory_cache
               /\ [s1 EXCEPT !.requests[id].from_memory_cache =
                                 requests[id].from_memory_cache] = Self

\* A tracked request was served from the cache and is still in the map, while
\* the other identifier is not tracked.
C19_Witness ==
    /\ contains_key(requests, "r1")
    /\ requests["r1"].from_memory_cache
    /\ requests["r1"].response = None
    /\ ~contains_key(requests, "r2")

----------------------------------------------------------------------------
(* Every paused request gets its protocol answer.                          *)

IsAnswerFor(item, fetch_id) ==
    /\ \/ IsCommand(item, "Fetch.continueRequest")
       \/ IsCommand(item, "Fetch.fulfillRequest")
    /\ item.cmd.request_id = fetch_id

\* C20: in every reachable state a paused event, with or without network id,
\* makes the engine queue exactly one continue-request or fulfill-request
\* command, carrying the event's fetch id; no will-be-sent event is ever
\* buffered, so the pairing branch, which queues no answer, is not taken.
C20_PausedAlwaysAnswered ==
    /\ DOMAIN requests_will_be_sent = {}
    /\ \A p \in AuthPaused \cup PolicyPaused :
           LET s1 == on_fetch_request_paused(Self, p)
           IN  /\ AppendsOnly(Self, s1)
               /\ Len(Added(Self, s1)) = 1
               /\ IsAnswerFor(Added(Self, s1)[1], p.request_id)

\* With credentials set and a request tracked, the paused event of fetch id
\* i2 was answered with continue-request.
C20_Witness ==
    /\ is_some(credentials)
    /\ contains_key(requests, "r2")
    /\ queued_events # <<>>
    /\ Last(queued_events) = SendCdpRequest(ContinueRequestParams("i2"))

----------------------------------------------------------------------------
(* Replacement of a live request.                                          *)

\* The redirected legs held in the chains of the live requests.
RECURSIVE Legs(_, _)
Legs(reqs, ids) ==
    IF ids = {} THEN 0
    ELSE LET id == CHOOSE x \in ids : TRUE
         IN  Len(reqs[id].redirect_chain) + Legs(reqs, ids \ {id})

\* C21: a will-be-sent event without redirect response for an identifier that
\* is live replaces the tracked request by a fresh one: the request-observed
\* notification is queued again and nothing else, the new entry carries nothing
\* of the replaced request (empty redirect chain, no response, no cache flag),
\* the live entries stay the same in number and the chained legs do not grow,
\* and the terminal event that follows carries the new request only.
C21_ReplacementDropsPrevious ==
    \A e \in TrackerWillBeSent :
        (e.redirect_response = None /\ contains_key(requests, e.request_id)) =>
            LET id == e.request_id
                s1 == on_request_will_be_sent(Self, e)
                fresh == HttpRequest_new(id, e.frame_id, None,
                                         user_request_interception_enabled, <<>>)
            IN  /\ AppendsOnly(Self, s1)
                /\ Added(Self, s1) = <<Request(id)>>
                /\ s1.requests[id] = fresh
                /\ DOMAIN s1.requests = DOMAIN requests
                /\ \A other \in DOMAIN requests \ {id} :
                       s1.requests[other] = requests[other]
                /\ Legs(s1.requests, DOMAIN s1.requests)
                       <= Legs(requests, DOMAIN requests)
                /\ Added(s1, on_network_loading_finished(s1, id))
                       = <<RequestFinished(fresh)>>
                /\ \A text \in ErrorTexts :
                       Added(s1, on_network_loading_failed(s1, id, text))
                           = <<RequestFailed([fresh EXCEPT !.failure_text = Some(text)])>>

\* Two request-observed notifications for r1 wait in the queue with no terminal
\* event between them, one entry is live and its chain is empty: the first
\* request was replaced.
C21_Witness ==
    /\ queued_events = <<Request("r1"), Request("r1")>>
    /\ contains_key(requests, "r1")
    /\ requests["r1"].redirect_chain = <<>>
    /\ Cardinality(DOMAIN requests) = 1

====
